---- MODULE Spec2Model ----
(***************************************************************************)
(* Model of SGDDialogueStateLossNM                                         *)
(* (src/nemo/collections/nlp/nm/losses/sgd_loss.py).                       *)
(*                                                                         *)
(* Tensors are kept in their flattened layout (view(-1) keeps order and    *)
(* values): a label tensor is a sequence of labels, a logit tensor a       *)
(* sequence of rows (one row of class logits per position), one slot per   *)
(* example.  Logits are small integers.  Loss values are exact rationals,  *)
(* or the IEEE not-a-number, or "raise" when the tensor library raises.    *)
(*                                                                         *)
(* The two library criteria are modelled by what they do with their        *)
(* population: per-position losses are summed over the selected positions  *)
(* and, for reduction 'mean', divided by the number of selected positions  *)
(* (0/0 is not-a-number).  The per-position loss itself is transcendental; *)
(* it is replaced by its integer skeleton: logsumexp(row) - row[label] is  *)
(* taken with the hard maximum for logsumexp, and the sigmoid cross        *)
(* entropy max(x,0) - x*y + log(1+exp(-|x|)) without its last term.  Both  *)
(* skeletons are non-negative and depend on the logits and on the label.   *)
(***************************************************************************)
EXTENDS Integers, Sequences, FiniteSets, TLC

\* ------------------------------------------------------------------ bounds
MaxBatch == 2       \* batch sizes 1..MaxBatch
MaxLogit == 1       \* magnitude of a non-zero logit
NumClasses == 2     \* classes of the intent, slot-value and token heads

\* ------------------------------------------------------- program constants
IGNORE_INDEX == -100
NumStatus == 3

ReductionArgs == {"mean", "sum", "max"}

\* --------------------------------------------------------------- numbers
RECURSIVE GCD(_, _)
GCD(a, b) == IF b = 0 THEN a ELSE GCD(b, a % b)

Abs(n) == IF n < 0 THEN 0 - n ELSE n

NaN == [kind |-> "nan", num |-> 0, den |-> 1]
Raised == [kind |-> "raise", num |-> 0, den |-> 1]

\* the rational n/d, d > 0, in lowest terms
Frac(n, d) ==
    LET g == GCD(Abs(n), d)
    IN  [kind |-> "num", num |-> n \div g, den |-> d \div g]

Num(n) == Frac(n, 1)

Add(a, b) ==
    IF a.kind = "raise" \/ b.kind = "raise" THEN Raised
    ELSE IF a.kind = "nan" \/ b.kind = "nan" THEN NaN
    ELSE Frac(a.num * b.den + b.num * a.den, a.den * b.den)

\* a / k for an integer k >= 0; the only division by zero the criteria
\* perform is that of an empty sum, 0/0
Div(a, k) ==
    IF a.kind # "num" THEN a
    ELSE IF k = 0 THEN NaN
    ELSE Frac(a.num, a.den * k)

\* 0 * x in floating point, x finite
ZeroTimes(a) == IF a.kind # "num" THEN a ELSE Num(0)

IsFinite(a) == a.kind = "num"
NonNegative(a) == a.kind = "num" /\ a.num >= 0

RECURSIVE SumSeq(_)
SumSeq(s) == IF s = <<>> THEN 0 ELSE Head(s) + SumSeq(Tail(s))

RECURSIVE MaxSeq(_)
MaxSeq(s) ==
    IF Len(s) = 1 THEN s[1]
    ELSE LET m == MaxSeq(Tail(s)) IN IF Head(s) > m THEN Head(s) ELSE m

\* --------------------------------------------------------- library criteria
\* per-position multi-class loss of a row of logits against a class index
NLL(row, label) == MaxSeq(row) - row[label + 1]

\* per-position sigmoid loss of a logit against a 0/1 target
BCE(x, y) == (IF x > 0 THEN x ELSE 0) - x * y

Reduce(reduction, total, count) ==
    CASE reduction = "mean" -> Div(Num(total), count)
      [] reduction = "sum" -> Num(total)
      [] OTHER -> Raised

\* torch.nn.CrossEntropyLoss(reduction, ignore_index=IGNORE_INDEX)
CrossEntropyLoss(reduction, logits, labels) ==
    LET per == [i \in DOMAIN labels |->
                  IF labels[i] = IGNORE_INDEX THEN 0 ELSE NLL(logits[i], labels[i])]
        active == {i \in DOMAIN labels : labels[i] # IGNORE_INDEX}
    IN  Reduce(reduction, SumSeq(per), Cardinality(active))

\* torch.nn.BCEWithLogitsLoss(reduction)
BCEWithLogitsLoss(reduction, logits, targets) ==
    LET per == [i \in DOMAIN logits |-> BCE(logits[i], targets[i])]
    IN  Reduce(reduction, SumSeq(per), Len(logits))

\* t[mask]: the entries of t at the positions where mask is true, in order
RECURSIVE MaskSelect(_, _)
MaskSelect(t, mask) ==
    IF t = <<>> THEN <<>>
    ELSE (IF Head(mask) THEN <<Head(t)>> ELSE <<>>) \o MaskSelect(Tail(t), Tail(mask))

\* torch.sum(logits.view(-1))
RECURSIVE SumRows(_)
SumRows(rows) == IF rows = <<>> THEN 0 ELSE SumSeq(Head(rows)) + SumRows(Tail(rows))

\* sum(labels != IGNORE_INDEX)
CountActive(labels) == Cardinality({i \in DOMAIN labels : labels[i] # IGNORE_INDEX})

\* ------------------------------------------------------------ construction
\* variant of init: the unsupported value is reported but kept
init_keeping(reduction) ==
    [self |-> [reduction |-> reduction, cross_entropy |-> reduction,
               criterion_req_slots |-> reduction],
     log |-> IF reduction \notin {"mean", "sum"}
             THEN {"reduction is not supported"} ELSE {}]

\* __init__(reduction): the fields of the new object and the diagnostics
init(reduction) ==
    LET unsupported == reduction \notin {"mean", "sum"}
        r == IF unsupported THEN "mean" ELSE reduction
    IN  [self |-> [reduction |-> r, cross_entropy |-> r, criterion_req_slots |-> r],
         log |-> IF unsupported THEN {"reduction is not supported"} ELSE {}]

\* ------------------------------------------------------------ the sub-losses
intent_loss(self, in) ==
    CrossEntropyLoss(self.cross_entropy, in.logit_intent_status, in.intent_status_labels)

\* variant of requested_slot_loss: the mask is not applied
requested_slot_loss_unmasked(self, in) ==
    BCEWithLogitsLoss(self.criterion_req_slots, in.logit_req_slot_status,
                      in.requested_slot_status)

requested_slot_loss(self, in) ==
    BCEWithLogitsLoss(self.criterion_req_slots,
                      MaskSelect(in.logit_req_slot_status, in.req_slot_mask),
                      MaskSelect(in.requested_slot_status, in.req_slot_mask))

cat_slot_status_loss(self, in) ==
    IF CountActive(in.categorical_slot_status) = 0
    THEN ZeroTimes(Num(SumRows(in.logit_cat_slot_status)))
    ELSE CrossEntropyLoss(self.cross_entropy, in.logit_cat_slot_status,
                          in.categorical_slot_status)

\* variant of cat_slot_value_loss: decided by the status labels
cat_slot_value_loss_by_status(self, in) ==
    IF CountActive(in.categorical_slot_status) = 0
    THEN ZeroTimes(Num(SumRows(in.logit_cat_slot_value)))
    ELSE CrossEntropyLoss(self.cross_entropy, in.logit_cat_slot_value,
                          in.categorical_slot_values)

cat_slot_value_loss(self, in) ==
    IF CountActive(in.categorical_slot_values) = 0
    THEN ZeroTimes(Num(SumRows(in.logit_cat_slot_value)))
    ELSE CrossEntropyLoss(self.cross_entropy, in.logit_cat_slot_value,
                          in.categorical_slot_values)

noncat_slot_status_loss(self, in) ==
    IF CountActive(in.noncategorical_slot_status) = 0
    THEN ZeroTimes(Num(SumRows(in.logit_noncat_slot_status)))
    ELSE CrossEntropyLoss(self.cross_entropy, in.logit_noncat_slot_status,
                          in.noncategorical_slot_status)

\* both span losses are decided by the span-start labels
span_start_loss(self, in) ==
    IF CountActive(in.noncategorical_slot_value_start) = 0
    THEN ZeroTimes(Num(SumRows(in.logit_noncat_slot_start)))
    ELSE CrossEntropyLoss(self.cross_entropy, in.logit_noncat_slot_start,
                          in.noncategorical_slot_value_start)

span_end_loss(self, in) ==
    IF CountActive(in.noncategorical_slot_value_start) = 0
    THEN ZeroTimes(Num(SumRows(in.logit_noncat_slot_end)))
    ELSE CrossEntropyLoss(self.cross_entropy, in.logit_noncat_slot_end,
                          in.noncategorical_slot_value_end)

\* the diagnostics of one call
warnings(in) ==
    (IF CountActive(in.categorical_slot_status) = 0
     THEN {"No active categorical slots in the batch"} ELSE {})
    \cup (IF CountActive(in.categorical_slot_values) = 0
          THEN {"No active values for categorical slots in the batch."} ELSE {})
    \cup (IF CountActive(in.noncategorical_slot_status) = 0
          THEN {"No active non-categorical slots in the batch."} ELSE {})
    \cup (IF CountActive(in.noncategorical_slot_value_start) = 0
          THEN {"No active values for non-categorical slots in the batch."} ELSE {})

LossNames ==
    <<"intent_loss", "requested_slot_loss", "cat_slot_status_loss", "cat_slot_value_loss",
      "noncat_slot_status_loss", "span_start_loss", "span_end_loss">>

\* the losses dictionary
losses_of(self, in) ==
    [intent_loss |-> intent_loss(self, in),
     requested_slot_loss |-> requested_slot_loss(self, in),
     cat_slot_status_loss |-> cat_slot_status_loss(self, in),
     cat_slot_value_loss |-> cat_slot_value_loss(self, in),
     noncat_slot_status_loss |-> noncat_slot_status_loss(self, in),
     span_start_loss |-> span_start_loss(self, in),
     span_end_loss |-> span_end_loss(self, in)]

\* sum(losses.values())
RECURSIVE SumLosses(_, _)
SumLosses(losses, names) ==
    IF names = <<>> THEN Num(0)
    ELSE Add(losses[Head(names)], SumLosses(losses, Tail(names)))

\* variant of total_loss_of: always divided by the batch size
total_loss_of_by_batch(reduction, losses, logit_intent_status) ==
    Div(SumLosses(losses, LossNames), Len(logit_intent_status))

\* variant of total_loss_of: always divided by the number of losses
total_loss_of_by_count(reduction, losses, logit_intent_status) ==
    Div(SumLosses(losses, LossNames), Cardinality(DOMAIN losses))

\* variant of total_loss_of: the requested-slot loss is left out of the sum
total_loss_of_without_req(reduction, losses, logit_intent_status) ==
    LET names == SelectSeq(LossNames, LAMBDA n : n # "requested_slot_loss")
    IN  IF reduction = "mean"
        THEN Div(SumLosses(losses, names), Cardinality(DOMAIN losses))
        ELSE Div(SumLosses(losses, names), Len(logit_intent_status))

\* the final division
total_loss_of(reduction, losses, logit_intent_status) ==
    IF reduction = "mean"
    THEN Div(SumLosses(losses, LossNames), Cardinality(DOMAIN losses))
    ELSE Div(SumLosses(losses, LossNames), Len(logit_intent_status))

\* _loss_function(...): the losses, the returned scalar and the diagnostics
loss_function(self, in) ==
    LET losses == losses_of(self, in)
    IN  [losses |-> losses,
         total_loss |-> total_loss_of(self.reduction, losses, in.logit_intent_status),
         log |-> warnings(in)]

\* ------------------------------------------------------------------ inputs
Families ==
    {"intent", "req_slot", "cat_status", "cat_value", "noncat_status", "span_start",
     "span_end"}

\* a row of width C whose logit of class k (counted from 1) is MaxLogit
OneHot(C, k) == [c \in 1..C |-> IF c = k THEN MaxLogit ELSE 0]

\* the rows of the varied tensors: the hot class is one of the first two
Rows(C) == {OneHot(C, k) : k \in {1, 2}}
Labels(C) == {IGNORE_INDEX} \cup 0..(C - 1)

\* the (logits, labels) pairs of a classification head over B positions
HeadTensors(C, B) ==
    {[logits |-> lg, labels |-> lb] : lg \in [1..B -> Rows(C)], lb \in [1..B -> Labels(C)]}

\* a plain pair: no active position, or only the first one active (and wrong)
PlainHeadTensor(C, B, active) ==
    [logits |-> [i \in 1..B |-> OneHot(C, 2)],
     labels |-> [i \in 1..B |-> IF active /\ i = 1 THEN 0 ELSE IGNORE_INDEX]]

ReqTensors(B) ==
    {[logits |-> lg, labels |-> lb, mask |-> m] :
        lg \in [1..B -> {0 - MaxLogit, MaxLogit}], lb \in [1..B -> {0, 1}],
        m \in [1..B -> BOOLEAN]}

\* a plain triple, every slot valid: every logit wrong, or every logit right
PlainReqTensor(B, active) ==
    [logits |-> [i \in 1..B |-> MaxLogit],
     labels |-> [i \in 1..B |-> IF active THEN 0 ELSE 1],
     mask |-> [i \in 1..B |-> TRUE]]

\* the tensors of family f in a batch of size B whose varied family is focus
HeadChoice(f, focus, C, B, active) ==
    IF f = focus THEN HeadTensors(C, B) ELSE {PlainHeadTensor(C, B, active)}

ReqChoice(focus, B, active) ==
    IF focus = "req_slot" THEN ReqTensors(B) ELSE {PlainReqTensor(B, active)}

Batch(it, rq, cs, cv, ns, st, en) ==
    [logit_intent_status |-> it.logits,
     intent_status_labels |-> it.labels,
     logit_req_slot_status |-> rq.logits,
     requested_slot_status |-> rq.labels,
     req_slot_mask |-> rq.mask,
     logit_cat_slot_status |-> cs.logits,
     categorical_slot_status |-> cs.labels,
     logit_cat_slot_value |-> cv.logits,
     categorical_slot_values |-> cv.labels,
     logit_noncat_slot_status |-> ns.logits,
     noncategorical_slot_status |-> ns.labels,
     logit_noncat_slot_start |-> st.logits,
     logit_noncat_slot_end |-> en.logits,
     noncategorical_slot_value_start |-> st.labels,
     noncategorical_slot_value_end |-> en.labels]

\* ------------------------------------------------------------------- state
VARIABLES
    ctor_arg,   \* the reduction argument the object was constructed with
    ctor_log,   \* the diagnostics of the construction
    self,       \* the object's fields
    pc,         \* "idle" | "ready" (a batch awaits the call) | "done" (the call returned)
    inputs,     \* the caller's tensors
    out,        \* the losses dictionary and the returned scalar of the last call
    log,        \* the diagnostics of the last call
    substituted \* history: an earlier call on this object substituted a zero loss

vars == <<ctor_arg, ctor_log, self, pc, inputs, out, log, substituted>>

None == [none |-> TRUE]

Init ==
    \E reduction \in ReductionArgs :
        /\ ctor_arg = reduction
        /\ self = init(reduction).self
        /\ ctor_log = init(reduction).log
        /\ pc = "idle"
        /\ inputs = None
        /\ out = None
        /\ log = {}
        /\ substituted = FALSE

\* the training loop hands the next batch to the loss.  Batches are well formed:
\* every family has the batch's number of positions.  One family ranges over all
\* its tensors, the others are plain: the intent head with or without an active
\* position (the requested-slot logits wrong or right with it), the slot heads all
\* of them with or all of them without one.
Feed ==
    /\ pc = "idle"
    /\ \E B \in 1..MaxBatch, focus \in Families, active \in BOOLEAN, intent \in BOOLEAN :
         \E it \in HeadChoice("intent", focus, NumClasses, B, intent),
            rq \in ReqChoice(focus, B, intent),
            cs \in HeadChoice("cat_status", focus, NumStatus, B, active),
            cv \in HeadChoice("cat_value", focus, NumClasses, B, active),
            ns \in HeadChoice("noncat_status", focus, NumStatus, B, active),
            st \in HeadChoice("span_start", focus, NumClasses, B, active),
            en \in HeadChoice("span_end", focus, NumClasses, B, active) :
                inputs' = Batch(it, rq, cs, cv, ns, st, en)
    /\ pc' = "ready"
    /\ UNCHANGED <<ctor_arg, ctor_log, self, out, log, substituted>>

\* variant of Forward: a call that substitutes a zero loss switches the object to 'sum'
Forward_switching ==
    /\ pc = "ready"
    /\ LET r == loss_function(self, inputs)
       IN  /\ out' = [losses |-> r.losses, total_loss |-> r.total_loss]
           /\ log' = r.log
           /\ self' = IF r.log # {}
                      THEN [self EXCEPT !.reduction = "sum", !.cross_entropy = "sum"]
                      ELSE self
    /\ pc' = "done"
    /\ UNCHANGED <<ctor_arg, ctor_log, inputs, substituted>>

\* one call of _loss_function on the batch
Forward ==
    /\ pc = "ready"
    /\ LET r == loss_function(self, inputs)
       IN  /\ out' = [losses |-> r.losses, total_loss |-> r.total_loss]
           /\ log' = r.log
    /\ pc' = "done"
    /\ UNCHANGED <<ctor_arg, ctor_log, self, inputs, substituted>>

\* the training loop consumes the scalar and drops the batch; the object stays
Step ==
    /\ pc = "done"
    /\ pc' = "idle"
    /\ inputs' = None
    /\ out' = None
    /\ log' = {}
    /\ substituted' = (substituted \/ log # {})
    /\ UNCHANGED <<ctor_arg, ctor_log, self>>

Next == Feed \/ Forward \/ Step

Spec == Init /\ [][Next]_vars

\* ------------------------------------------------------------------ claims
Positions == DOMAIN inputs.intent_status_labels
BatchSize == Len(inputs.logit_intent_status)

\* the seven entries of the losses dictionary of the last call, added up
SevenLosses ==
    Add(out.losses.intent_loss,
    Add(out.losses.requested_slot_loss,
    Add(out.losses.cat_slot_status_loss,
    Add(out.losses.cat_slot_value_loss,
    Add(out.losses.noncat_slot_status_loss,
    Add(out.losses.span_start_loss, out.losses.span_end_loss))))))

\* C1: every call on a well-formed batch returns a finite, non-negative scalar
\* (it neither raises nor averages over an empty population).
C1_FiniteNonNegative == pc = "done" => NonNegative(out.total_loss)

\* C2: under 'mean' the returned value is the sum of the seven sub-losses
\* divided by 7, whatever the batch size.
C2_MeanDividesBySeven ==
    (pc = "done" /\ self.reduction = "mean") => out.total_loss = Div(SevenLosses, 7)

C2_Witness ==
    /\ pc = "done" /\ self.reduction = "mean" /\ BatchSize = 2
    /\ IsFinite(out.total_loss) /\ out.total_loss.num > 0

\* C3: under 'sum' the returned value is the sum of the seven sub-losses divided
\* by the first dimension of the intent logits.
C3_SumDividesByBatch ==
    (pc = "done" /\ self.reduction = "sum")
        => out.total_loss = Div(SevenLosses, Len(inputs.logit_intent_status))

C3_Witness ==
    /\ pc = "done" /\ self.reduction = "sum" /\ BatchSize = 2
    /\ IsFinite(out.total_loss) /\ out.total_loss.num > 0

\* C4: a reduction outside {'mean', 'sum'} is reported and replaced by 'mean' in
\* the object and in both criteria, and every call then returns what an object
\* constructed with 'mean' returns; 'mean' and 'sum' are stored unchanged
\* without a diagnostic.
C4_UnsupportedIsMean ==
    /\ ctor_arg \notin {"mean", "sum"} =>
         /\ self = [reduction |-> "mean", cross_entropy |-> "mean",
                    criterion_req_slots |-> "mean"]
         /\ ctor_log # {}
         /\ pc = "done" =>
              LET r == loss_function(init("mean").self, inputs)
              IN  out = [losses |-> r.losses, total_loss |-> r.total_loss]
    /\ ctor_arg \in {"mean", "sum"} =>
         /\ self = [reduction |-> ctor_arg, cross_entropy |-> ctor_arg,
                    criterion_req_slots |-> ctor_arg]
         /\ ctor_log = {}

C4_Witness ==
    /\ ctor_arg = "max" /\ pc = "done" /\ BatchSize = 2
    /\ IsFinite(out.total_loss) /\ out.total_loss.num > 0

\* the rule the claims state for one head: zero and a diagnostic when the head's
\* own labels are all ignored, its cross-entropy and no diagnostic otherwise
OwnLabelsDecide(loss, logits, labels, message) ==
    IF \A i \in DOMAIN labels : labels[i] = IGNORE_INDEX
    THEN loss = Num(0) /\ message \in log
    ELSE loss = CrossEntropyLoss(self.cross_entropy, logits, labels) /\ message \notin log

\* C5: each of the categorical-status, categorical-value and non-categorical-
\* status sub-losses is exactly 0, with a diagnostic, when that head's own labels
\* are all the ignore index, and is the cross-entropy of the head's logits against
\* its own labels otherwise; the call completes either way.
C5_DegenerateHeads ==
    pc = "done" =>
        /\ OwnLabelsDecide(out.losses.cat_slot_status_loss, inputs.logit_cat_slot_status,
                           inputs.categorical_slot_status,
                           "No active categorical slots in the batch")
        /\ OwnLabelsDecide(out.losses.cat_slot_value_loss, inputs.logit_cat_slot_value,
                           inputs.categorical_slot_values,
                           "No active values for categorical slots in the batch.")
        /\ OwnLabelsDecide(out.losses.noncat_slot_status_loss,
                           inputs.logit_noncat_slot_status,
                           inputs.noncategorical_slot_status,
                           "No active non-categorical slots in the batch.")

C5_Witness ==
    /\ pc = "done"
    /\ CountActive(inputs.categorical_slot_status) = 0
    /\ SumRows(inputs.logit_cat_slot_status) # 0
    /\ out.losses.cat_slot_status_loss = Num(0)
    /\ CountActive(inputs.categorical_slot_values) > 0
    /\ IsFinite(out.losses.cat_slot_value_loss) /\ out.losses.cat_slot_value_loss.num > 0

\* the requested-slot tensors that agree with the batch's wherever the mask is
\* true; elsewhere any logit and any label, the ignore index included
ReqVariants ==
    {v \in [logits : [Positions -> {0 - MaxLogit, MaxLogit}],
            labels : [Positions -> {0, 1, IGNORE_INDEX}]] :
        \A i \in Positions :
            inputs.req_slot_mask[i] =>
                /\ v.logits[i] = inputs.logit_req_slot_status[i]
                /\ v.labels[i] = inputs.requested_slot_status[i]}

\* C6: the requested-slot loss is the same for every batch with the same mask
\* that agrees on the logits and labels at the mask-true positions.
C6_MaskedOnly ==
    pc = "done" =>
        \A v \in ReqVariants :
            requested_slot_loss(self, [inputs EXCEPT !.logit_req_slot_status = v.logits,
                                                     !.requested_slot_status = v.labels])
                = out.losses.requested_slot_loss

C6_Witness ==
    /\ pc = "done"
    /\ \E i, j \in Positions : inputs.req_slot_mask[i] /\ ~inputs.req_slot_mask[j]
    /\ IsFinite(out.losses.requested_slot_loss) /\ out.losses.requested_slot_loss.num > 0

\* the case of C7: 'mean', exactly one active intent label, every label of the
\* five slot heads ignored
OnlyOneIntentActive ==
    /\ pc = "done" /\ self.reduction = "mean"
    /\ CountActive(inputs.intent_status_labels) = 1
    /\ CountActive(inputs.categorical_slot_status) = 0
    /\ CountActive(inputs.categorical_slot_values) = 0
    /\ CountActive(inputs.noncategorical_slot_status) = 0
    /\ CountActive(inputs.noncategorical_slot_value_start) = 0
    /\ CountActive(inputs.noncategorical_slot_value_end) = 0

\* C7 as stated: in that case the total is intentLoss / 7 whatever the
\* requested-slot tensors are.
C7_IntentOverSeven == OnlyOneIntentActive => out.total_loss = Div(out.losses.intent_loss, 7)

\* C7, amended: in that case the total is (intentLoss + requested_slot_loss) / 7.
C7_IntentPlusRequestedOverSeven ==
    OnlyOneIntentActive =>
        out.total_loss = Div(Add(out.losses.intent_loss, out.losses.requested_slot_loss), 7)

C7_Witness ==
    /\ OnlyOneIntentActive
    /\ IsFinite(out.losses.intent_loss) /\ out.losses.intent_loss.num > 0
    /\ IsFinite(out.losses.requested_slot_loss) /\ out.losses.requested_slot_loss.num > 0

\* C8: no step changes the object's fields; a call leaves the caller's tensors
\* as they were and returns what a freshly constructed object returns on them,
\* whatever calls came before.
C8_Stateless ==
    [][/\ self' = self
       /\ pc = "ready" =>
            /\ inputs' = inputs
            /\ out'.total_loss = loss_function(init(ctor_arg).self, inputs).total_loss]_vars

C8_Witness ==
    /\ pc = "done" /\ substituted /\ log = {}
    /\ IsFinite(out.total_loss) /\ out.total_loss.num > 0

\* C9: the span-end sub-loss is zero exactly when the span-end labels are all the
\* ignore index and the cross-entropy against the span-end labels otherwise, and
\* likewise the span-start sub-loss is decided by the span-start labels.
C9_SpanLossesByOwnLabels ==
    pc = "done" =>
        /\ IF \A i \in Positions : inputs.noncategorical_slot_value_end[i] = IGNORE_INDEX
           THEN out.losses.span_end_loss = Num(0)
           ELSE out.losses.span_end_loss =
                    CrossEntropyLoss(self.cross_entropy, inputs.logit_noncat_slot_end,
                                     inputs.noncategorical_slot_value_end)
        /\ IF \A i \in Positions : inputs.noncategorical_slot_value_start[i] = IGNORE_INDEX
           THEN out.losses.span_start_loss = Num(0)
           ELSE out.losses.span_start_loss =
                    CrossEntropyLoss(self.cross_entropy, inputs.logit_noncat_slot_start,
                                     inputs.noncategorical_slot_value_start)

\* the sum of the per-position losses of the active positions
RECURSIVE ActiveSum(_, _, _)
ActiveSum(logits, labels, i) ==
    IF i = 0 THEN 0
    ELSE ActiveSum(logits, labels, i - 1)
         + (IF labels[i] = IGNORE_INDEX THEN 0 ELSE NLL(logits[i], labels[i]))

\* what C10 states for one head with an active label
ActiveOnly(loss, logits, labels) ==
    CountActive(labels) > 0 =>
        loss = IF self.cross_entropy = "mean"
               THEN Frac(ActiveSum(logits, labels, Len(labels)), CountActive(labels))
               ELSE Num(ActiveSum(logits, labels, Len(labels)))

\* C10: every cross-entropy sub-loss with an active label is the sum of the
\* per-position losses of its active positions, divided under 'mean' by the
\* number of active positions and undivided under 'sum'.
C10_ActivePositionsOnly ==
    pc = "done" =>
        /\ ActiveOnly(out.losses.intent_loss, inputs.logit_intent_status,
                      inputs.intent_status_labels)
        /\ ActiveOnly(out.losses.cat_slot_status_loss, inputs.logit_cat_slot_status,
                      inputs.categorical_slot_status)
        /\ ActiveOnly(out.losses.cat_slot_value_loss, inputs.logit_cat_slot_value,
                      inputs.categorical_slot_values)
        /\ ActiveOnly(out.losses.noncat_slot_status_loss, inputs.logit_noncat_slot_status,
                      inputs.noncategorical_slot_status)
        /\ ActiveOnly(out.losses.span_start_loss, inputs.logit_noncat_slot_start,
                      inputs.noncategorical_slot_value_start)
        /\ ActiveOnly(out.losses.span_end_loss, inputs.logit_noncat_slot_end,
                      inputs.noncategorical_slot_value_end)

====
